---- MODULE Spec2Model ----
(***************************************************************************)
(* A model of desimeter's Desimeter class (py/desimeter/desimeter.py):     *)
(* measure_spots (registration of one exposure against the metrology       *)
(* catalog) and measure_circles (per-device aggregation over exposures).   *)
(*                                                                         *)
(* Tables are column oriented, as astropy Tables are: a table is a         *)
(* function from column names to sequences of equal length.  Python's      *)
(* 0-based indices are kept; a sequence s is read at Python index i as     *)
(* PyIndex(s, i).  Lengths are in mm; distances are carried squared, so    *)
(* that d < g is the exact comparison d*d < g*g on integers.               *)
(***************************************************************************)
EXTENDS Integers, Sequences, FiniteSets, TLC

VARIABLES
    metro,                    \* self.metro
    fvc2fp,                   \* self.fvc2fp: the parameters of the shared transform
    passes,                   \* the calls of measure_spots that run on this Desimeter
    nspots,                   \* detections per exposure
    pc,                       \* per call: position in measure_spots
    spots,                    \* per call: the detection table
    selection,                \* per call: local selection
    indices_of_expected_pos,  \* per call: local indices_of_expected_pos
    distances,                \* per call: local distances (squared)
    matcher,                  \* per call: what match_same_system returned
    seen,                     \* per call: transform parameters findfiducials was given
    spots0,                   \* per call: the table when matching starts (line 75)
    spots1,                   \* per call: the table after the copy loops (line 95)
    cpc,                      \* position in measure_circles
    first,                    \* measure_circles: first
    nexp,                     \* measure_circles: exposures of allspots consumed
    xkeys,                    \* measure_circles: list(x.keys()), in insertion order
    x,                        \* measure_circles: x
    y,                        \* measure_circles: y
    xexp,                     \* measure_circles: xexp
    yexp,                     \* measure_circles: yexp
    fitres,                   \* measure_circles: what fit_circle did, per fitted device
    t2,                       \* measure_circles: the returned table
    sighted,                  \* measure_circles: history of the keys of allspots so far
    drsel,                    \* measure_circles: the mask dr != 0 of the printed median
    fpc,                      \* position in fiberassign_radec2xy
    tile,                     \* fiberassign_radec2xy: its arguments and the projection
    tel,                      \* fiberassign_radec2xy: <<tel_ra, tel_dec>>
    iteration,                \* fiberassign_radec2xy: iteration
    fp_0,                     \* fiberassign_radec2xy: <<xfp_0[0], yfp_0[0]>>
    J,                        \* fiberassign_radec2xy: J, row by row
    X,                        \* fiberassign_radec2xy: X = <<dra, ddec>>
    updates,                  \* fiberassign_radec2xy: pointing updates done so far
    tmp_fp,                   \* fiberassign_radec2xy: tmp_xfp, tmp_yfp per target
    tmp_fieldrot,             \* fiberassign_radec2xy: tmp_fieldrot
    realised_fieldrot,        \* fiberassign_radec2xy: realised_fieldrot
    fp,                       \* fiberassign_radec2xy: the returned xfp, yfp per target
    bpc,                      \* position in bin_errors
    table,                    \* bin_errors: the rows of table
    bins,                     \* bin_errors: bins
    bin_ceilings,             \* bin_errors: bin_ceilings
    periods,                  \* bin_errors: periods
    subtables,                \* bin_errors: subtables
    passing,                  \* bin_errors: passing
    failing,                  \* bin_errors: failing
    ceiling_i,                \* bin_errors: index of ceiling in bin_ceilings
    period_i,                 \* bin_errors: i of the loop over the periods
    binned                    \* bin_errors: the returned structure

spotVars == <<metro, fvc2fp, passes, nspots, pc, spots, selection,
              indices_of_expected_pos, distances, matcher, seen, spots0, spots1>>

circleVars == <<cpc, first, nexp, xkeys, x, y, xexp, yexp, fitres, t2, sighted, drsel>>

pointVars == <<fpc, tile, tel, iteration, fp_0, J, X, updates, tmp_fp, tmp_fieldrot,
               realised_fieldrot, fp>>

binVars == <<bpc, table, bins, bin_ceilings, periods, subtables, passing, failing,
             ceiling_i, period_i, binned>>

vars == <<spotVars, circleVars, pointVars, binVars>>

(***************************************************************************)
(* Bounds                                                                  *)
(***************************************************************************)
NSpots == 3
ConcSpots == 1
MaxExposures == 6

\* largest focal-plane offset of the tile centre that the ADC angles produce
MaxAdc == 1

\* most rows of the table given to bin_errors
BinRows == 3

\* latest DATA_END_DATE_SEC of a row, in half days
MaxDate == 3

AllPasses == {1, 2}

(***************************************************************************)
(* numpy / astropy helpers                                                 *)
(***************************************************************************)
Zeros(n) == [i \in 1..n |-> 0]

PyIndex(s, i) == IF i >= 0 THEN s[i + 1] ELSE s[Len(s) + i + 1]

\* a[idx] for an integer index array idx
Take(a, idx) == [j \in 1..Len(idx) |-> PyIndex(a, idx[j])]

\* number of True among mask[1..i]
RECURSIVE Rank(_, _)
Rank(mask, i) == IF i = 0 THEN 0 ELSE Rank(mask, i - 1) + (IF mask[i] THEN 1 ELSE 0)

\* a[mask] for a boolean mask
RECURSIVE BoolIndex(_, _)
BoolIndex(a, mask) ==
    IF Len(a) = 0 THEN <<>>
    ELSE (IF Head(mask) THEN <<Head(a)>> ELSE <<>>) \o BoolIndex(Tail(a), Tail(mask))

\* a[mask] = values
MaskAssign(a, mask, values) ==
    [i \in 1..Len(a) |-> IF mask[i] THEN values[Rank(mask, i)] ELSE a[i]]

NRows(t) == Len(t["LOCATION"])

NoTable == [c \in {"LOCATION"} |-> <<>>]

AddColumn(t, k, col) == [c \in (DOMAIN t) \cup {k} |-> IF c = k THEN col ELSE t[c]]

(***************************************************************************)
(* Desimeter.__init__: the metrology catalog                               *)
(***************************************************************************)
MetroBase ==
    [c \in {"PETAL_LOC", "DEVICE_LOC", "X_FP", "Y_FP"} |->
        CASE c = "PETAL_LOC"  -> <<0, 1>>
          [] c = "DEVICE_LOC" -> <<1, 0>>
          [] c = "X_FP"       -> <<1, 20>>
          [] c = "Y_FP"       -> <<2, 4>>]

\* fp-metrology.csv, without and with a LOCATION column
MetroFiles == {MetroBase, AddColumn(MetroBase, "LOCATION", <<1, 1000>>)}

DerivedLocationNoThousand(m) ==
    [i \in 1..Len(m["PETAL_LOC"]) |-> m["PETAL_LOC"][i] * 100 + m["DEVICE_LOC"][i]]

DerivedLocation(m) ==
    [i \in 1..Len(m["PETAL_LOC"]) |-> m["PETAL_LOC"][i] * 1000 + m["DEVICE_LOC"][i]]

LoadMetro(file) ==
    IF "LOCATION" \notin DOMAIN file
    THEN AddColumn(file, "LOCATION", DerivedLocation(file))
    ELSE file

InitFvc2fp == 0

(***************************************************************************)
(* Collaborators of measure_spots                                          *)
(***************************************************************************)
\* pixel positions detectspots can report
SpotPix == {<<7, 2>>, <<19, 3>>}

\* the transform's parameter: a shift along x
TransformParams == {0, 1}

\* what findfiducials can deliver for one detection: unmatched, unmatched with
\* a metrology x already set, matched to a catalog row, a LOCATION the
\* catalog does not have
FiducialOutcomes(m) ==
    {[LOCATION |-> -1, PETAL_LOC |-> -1, DEVICE_LOC |-> -1, X_FP_METRO |-> 0, Y_FP_METRO |-> 0],
     [LOCATION |-> -1, PETAL_LOC |-> -1, DEVICE_LOC |-> -1, X_FP_METRO |-> 3, Y_FP_METRO |-> 0],
     [LOCATION |-> 5000, PETAL_LOC |-> 5, DEVICE_LOC |-> 0, X_FP_METRO |-> 0, Y_FP_METRO |-> 0]}
    \cup
    {[LOCATION |-> m["LOCATION"][j], PETAL_LOC |-> m["PETAL_LOC"][j],
      DEVICE_LOC |-> m["DEVICE_LOC"][j],
      X_FP_METRO |-> m["X_FP"][j], Y_FP_METRO |-> m["Y_FP"][j]] : j \in 1..Len(m["LOCATION"])}

\* the tables findfiducials can return for n detections; withExp: the table
\* already carries expected-position columns
FiducialTables(m, n, withExp) ==
    {[c \in {"XPIX", "YPIX", "LOCATION", "PETAL_LOC", "DEVICE_LOC", "X_FP_METRO", "Y_FP_METRO"}
            \cup (IF withExp THEN {"X_FP_EXP", "Y_FP_EXP"} ELSE {}) |->
        [i \in 1..n |->
            CASE c = "XPIX" -> pix[i][1]
              [] c = "YPIX" -> pix[i][2]
              [] c \in {"X_FP_EXP", "Y_FP_EXP"} -> 50
              [] OTHER -> fid[i][c]]] :
     pix \in [1..n -> SpotPix], fid \in [1..n -> FiducialOutcomes(m)]}

\* FVC2FP.fit(spots, update_spots=True): the detections projected with the
\* refitted parameters
Project(t, params) ==
    AddColumn(AddColumn(t, "X_FP", [i \in 1..NRows(t) |-> t["XPIX"][i] + params]),
              "Y_FP", t["YPIX"])

Dist2(x1, y1, x2, y2) == (x1 - x2) * (x1 - x2) + (y1 - y2) * (y1 - y2)

\* index (0-based) of the nearest target
Nearest(px, py, tx, ty) ==
    CHOOSE j \in 0..(Len(tx) - 1) :
        \A k \in 0..(Len(tx) - 1) :
            \/ Dist2(px, py, tx[j + 1], ty[j + 1]) < Dist2(px, py, tx[k + 1], ty[k + 1])
            \/ (Dist2(px, py, tx[j + 1], ty[j + 1]) = Dist2(px, py, tx[k + 1], ty[k + 1]) /\ j <= k)

\* match_same_system: per source point the index of its nearest target, or a
\* negative index, and the distance (squared) to the nearest target
MatchSameSystem(sx, sy, tx, ty) ==
    {[indices |-> [i \in 1..Len(sx) |->
                      IF valid[i] THEN Nearest(sx[i], sy[i], tx, ty) ELSE -1],
      distances |-> [i \in 1..Len(sx) |->
                      LET j == Nearest(sx[i], sy[i], tx, ty)
                      IN Dist2(sx[i], sy[i], tx[j + 1], ty[j + 1])]] :
     valid \in [1..Len(sx) -> BOOLEAN]}

(***************************************************************************)
(* measure_spots, lines 75-101                                             *)
(***************************************************************************)
max_match_distance == 7

SelectAll(t) == [i \in 1..NRows(t) |-> TRUE]

\* line 76
SelectUnmatched(t) == [i \in 1..NRows(t) |-> t["LOCATION"][i] = -1]

IsMatchedAnyIndex(dist, idx) ==
    [i \in 1..Len(dist) |-> dist[i] < max_match_distance * max_match_distance]

IsMatchedInclusive(dist, idx) ==
    [i \in 1..Len(dist) |-> dist[i] <= max_match_distance * max_match_distance /\ idx[i] >= 0]

\* line 82
IsMatched(dist, idx) ==
    [i \in 1..Len(dist) |-> dist[i] < max_match_distance * max_match_distance /\ idx[i] >= 0]

\* lines 83-84: selection[ii] &= is_matched, ii the selected positions
GateSelection(sel, is_matched) ==
    [i \in 1..Len(sel) |-> IF sel[i] THEN sel[i] /\ is_matched[Rank(sel, i)] ELSE sel[i]]

GatedUnfiltered(a, is_matched) == a

\* lines 85-86
Gated(a, is_matched) == BoolIndex(a, is_matched)

\* lines 90-91, 94-95: the column is created as zeros when absent, then
\* written at the selected rows
CopyColumn(t, k2, k1, sel, idx, m) ==
    LET u == IF k2 \notin DOMAIN t THEN AddColumn(t, k2, Zeros(NRows(t))) ELSE t
    IN [u EXCEPT ![k2] = MaskAssign(u[k2], sel, Take(m[k1], idx))]

\* lines 92-95
RECURSIVE CopyKeys(_, _, _, _, _)
CopyKeys(t, ks, sel, idx, m) ==
    IF ks = <<>> THEN t
    ELSE CopyKeys(IF Head(ks) \in DOMAIN m
                  THEN CopyColumn(t, Head(ks), Head(ks), sel, idx, m)
                  ELSE t,
                  Tail(ks), sel, idx, m)

\* lines 89-95
CopyFromMetro(t, sel, idx, m) ==
    CopyKeys(CopyColumn(CopyColumn(t, "X_FP_EXP", "X_FP", sel, idx, m),
                        "Y_FP_EXP", "Y_FP", sel, idx, m),
             <<"EXP_Q_0", "EXP_S_0", "PETAL_LOC", "DEVICE_LOC", "LOCATION">>, sel, idx, m)

NonZero(col) == [i \in 1..Len(col) |-> col[i] # 0]

PreferMetroXMask(t) ==
    LET selx == NonZero(t["X_FP_METRO"])
        u == [t EXCEPT !["X_FP_EXP"] = MaskAssign(t["X_FP_EXP"], selx, BoolIndex(t["X_FP_METRO"], selx))]
    IN [u EXCEPT !["Y_FP_EXP"] = MaskAssign(u["Y_FP_EXP"], selx, BoolIndex(u["Y_FP_METRO"], selx))]

\* lines 98-101
PreferMetro(t) ==
    LET selx == NonZero(t["X_FP_METRO"])
        u == [t EXCEPT !["X_FP_EXP"] = MaskAssign(t["X_FP_EXP"], selx, BoolIndex(t["X_FP_METRO"], selx))]
        sely == NonZero(u["Y_FP_METRO"])
    IN [u EXCEPT !["Y_FP_EXP"] = MaskAssign(u["Y_FP_EXP"], sely, BoolIndex(u["Y_FP_METRO"], sely))]

(***************************************************************************)
(* measure_circles, lines 108-205.  Radii are in units of 0.1 mm.          *)
(***************************************************************************)
Range(s) == {s[i] : i \in 1..Len(s)}

RECURSIVE Sum(_)
Sum(s) == IF s = <<>> THEN 0 ELSE Head(s) + Sum(Tail(s))

EmptyDict == [k \in {} |-> <<>>]

\* d[k] = v
DictSet(d, k, v) == [j \in (DOMAIN d) \cup {k} |-> IF j = k THEN v ELSE d[j]]

\* the dictionaries x, y, xexp, yexp and the key order of x
Dicts(ks, dx, dy, dxe, dye) == [keys |-> ks, x |-> dx, y |-> dy, xexp |-> dxe, yexp |-> dye]

\* observed positions of one exposure; x = 0 is a placeholder
ObsXY == {<<0, 0>>, <<1, 4>>, <<3, 4>>, <<3, 0>>}

\* expected x of one exposure
ExpX == {0, 3}

\* registered detection tables of one exposure: a positioner (LOCATION 1,
\* pinhole 0) and a fiducial pinhole (LOCATION 2, pinhole 1) seen at the same
\* position; or the positioner detected twice, the pinhole once, and two
\* detections without a device (LOCATION 0 and -1)
ExposureTables ==
    {[c \in {"LOCATION", "PINHOLE_ID", "X_FP", "Y_FP", "X_FP_EXP", "Y_FP_EXP"} |->
        CASE c = "LOCATION"   -> <<1, 2>>
          [] c = "PINHOLE_ID" -> <<0, 1>>
          [] c = "X_FP"       -> <<o[1], o[1]>>
          [] c = "Y_FP"       -> <<o[2], o[2]>>
          [] c = "X_FP_EXP"   -> <<e, e>>
          [] c = "Y_FP_EXP"   -> <<4, 4>>] : o \in ObsXY, e \in ExpX}
    \cup
    {[c \in {"LOCATION", "PINHOLE_ID", "X_FP", "Y_FP", "X_FP_EXP", "Y_FP_EXP"} |->
        CASE c = "LOCATION"   -> <<1, 1, 2, 0, -1>>
          [] c = "PINHOLE_ID" -> <<0, 0, 1, 1, 0>>
          [] c = "X_FP"       -> <<1, 3, 1, 1, 1>>
          [] c = "Y_FP"       -> <<4, 4, 4, 4, 4>>
          [] c = "X_FP_EXP"   -> <<e, e + 1, e, 7, 7>>
          [] c = "Y_FP_EXP"   -> <<4, 4, 4, 4, 4>>] : e \in ExpX}

\* the devices of the key exposures, as <<LOCATION, PINHOLE_ID>>: neighbouring
\* locations, the pinhole ids 0 and 9 at the ends of the digit, a location of
\* two digits
KeyDevices == <<(<<1, 0>>), (<<1, 9>>), (<<2, 0>>), (<<10, 1>>)>>

\* registered detection tables of one exposure whose detections carry their
\* device as their position (X_FP = LOCATION, Y_FP = PINHOLE_ID), so that the
\* device an accumulated observation came from can be read off the observation
KeyTables ==
    {[c \in {"LOCATION", "PINHOLE_ID", "X_FP", "Y_FP", "X_FP_EXP", "Y_FP_EXP"} |->
        [n \in 1..2 |->
            LET dev == KeyDevices[IF n = 1 THEN i ELSE j]
            IN IF c \in {"LOCATION", "X_FP", "X_FP_EXP"} THEN dev[1] ELSE dev[2]]] :
        i \in 1..Len(KeyDevices), j \in 1..Len(KeyDevices)}

\* registered detection tables of one exposure for the duplicate rule: the
\* pinhole alone with two detections without a device (LOCATION 0 and -1); the
\* positioner detected twice beside the pinhole; the positioner and the pinhole
\* once each.  Duplicate detections are at x = 5 and 7 and detections without
\* a device at x = 9 and 11, where no other detection is.
DupTables ==
    {[c \in {"LOCATION", "PINHOLE_ID", "X_FP", "Y_FP", "X_FP_EXP", "Y_FP_EXP"} |->
        CASE c = "LOCATION"   -> <<2, 0, -1>>
          [] c = "PINHOLE_ID" -> <<1, 1, 0>>
          [] c = "X_FP"       -> <<1, 9, 11>>
          [] c = "Y_FP"       -> <<4, 4, 4>>
          [] c = "X_FP_EXP"   -> <<e, 7, 7>>
          [] c = "Y_FP_EXP"   -> <<4, 4, 4>>] : e \in ExpX}
    \cup
    {[c \in {"LOCATION", "PINHOLE_ID", "X_FP", "Y_FP", "X_FP_EXP", "Y_FP_EXP"} |->
        CASE c = "LOCATION"   -> <<1, 1, 2>>
          [] c = "PINHOLE_ID" -> <<0, 0, 1>>
          [] c = "X_FP"       -> <<5, 7, 1>>
          [] c = "Y_FP"       -> <<4, 4, 4>>
          [] c = "X_FP_EXP"   -> <<e, e + 1, e>>
          [] c = "Y_FP_EXP"   -> <<4, 4, 4>>] : e \in ExpX}
    \cup
    {[c \in {"LOCATION", "PINHOLE_ID", "X_FP", "Y_FP", "X_FP_EXP", "Y_FP_EXP"} |->
        CASE c = "LOCATION"   -> <<1, 2>>
          [] c = "PINHOLE_ID" -> <<0, 1>>
          [] c = "X_FP"       -> <<o, 1>>
          [] c = "Y_FP"       -> <<4, 4>>
          [] c = "X_FP_EXP"   -> <<e, e>>
          [] c = "Y_FP_EXP"   -> <<4, 4>>] : o \in {1, 3}, e \in ExpX}

\* line 116
SelectLocated(t) == [i \in 1..NRows(t) |-> t["LOCATION"][i] > 0]

LocationTimesNine(t) == [i \in 1..NRows(t) |-> t["LOCATION"][i] * 9 + t["PINHOLE_ID"][i]]

\* line 117
LocationAndPinhole(t) == [i \in 1..NRows(t) |-> t["LOCATION"][i] * 10 + t["PINHOLE_ID"][i]]

\* t[col][location_and_pinhole==loc][0]
FirstWithKey(t, col, lp, loc) ==
    t[col][CHOOSE i \in 1..Len(lp) : lp[i] = loc /\ \A j \in 1..(i - 1) : lp[j] # loc]

\* lines 120-123 and 134-137
NewDevice(d, t, lp, loc) ==
    [keys |-> IF loc \in DOMAIN d.x THEN d.keys ELSE Append(d.keys, loc),
     x |-> DictSet(d.x, loc, <<>>),
     y |-> DictSet(d.y, loc, <<>>),
     xexp |-> DictSet(d.xexp, loc, FirstWithKey(t, "X_FP_EXP", lp, loc)),
     yexp |-> DictSet(d.yexp, loc, FirstWithKey(t, "Y_FP_EXP", lp, loc))]

\* lines 119-123
RECURSIVE RegisterFirst(_, _, _, _)
RegisterFirst(d, t, lp, locs) ==
    IF locs = <<>> THEN d
    ELSE RegisterFirst(NewDevice(d, t, lp, Head(locs)), t, lp, Tail(locs))

\* the first of several detections with the key is appended
AccumulateFirstOfSeveral(d, t, lp, loc) ==
    LET i == CHOOSE j \in 1..Len(lp) : lp[j] = loc /\ \A l \in 1..(j - 1) : lp[l] # loc
        d2 == IF loc \notin DOMAIN d.x THEN NewDevice(d, t, lp, loc) ELSE d
    IN [d2 EXCEPT !.x[loc] = Append(@, t["X_FP"][i]),
                  !.y[loc] = Append(@, t["Y_FP"][i])]

\* lines 128-139, one turn of the loop
AccumulateOne(d, t, lp, loc) ==
    LET ii == {i \in 1..Len(lp) : lp[i] = loc}
    IN IF Cardinality(ii) > 1 THEN d
       ELSE LET i == CHOOSE j \in ii : TRUE
                d2 == IF loc \notin DOMAIN d.x THEN NewDevice(d, t, lp, loc) ELSE d
            IN [d2 EXCEPT !.x[loc] = Append(@, t["X_FP"][i]),
                          !.y[loc] = Append(@, t["Y_FP"][i])]

\* lines 127-139
RECURSIVE Accumulate(_, _, _, _)
Accumulate(d, t, lp, locs) ==
    IF locs = <<>> THEN d
    ELSE Accumulate(AccumulateOne(d, t, lp, Head(locs)), t, lp, Tail(locs))

\* lines 115-139: the body of the loop over allspots
AfterExposure(d, isFirst, t) ==
    LET lp == LocationAndPinhole(t)
        locs == BoolIndex(lp, SelectLocated(t))
        d1 == IF isFirst THEN RegisterFirst(d, t, lp, locs) ELSE d
    IN Accumulate(d1, t, lp, locs)

\* history of the keys of allspots so far, kept beside the dictionaries: per
\* key, the expected position of the first detection that carried it (first),
\* and that of the first detection that carried it in the first exposure or
\* else in the first exposure where one detection alone carried it (kept; <<>>
\* while there is no such exposure)
Sight(s, isFirst, t) ==
    LET lp == LocationAndPinhole(t)
        ks == Range(BoolIndex(lp, SelectLocated(t)))
        pos(k) == <<FirstWithKey(t, "X_FP_EXP", lp, k), FirstWithKey(t, "Y_FP_EXP", lp, k)>>
        single(k) == Cardinality({i \in 1..Len(lp) : lp[i] = k}) = 1
    IN [k \in (DOMAIN s) \cup ks |->
          [first |-> IF k \in DOMAIN s THEN s[k].first ELSE pos(k),
           kept  |-> IF k \in DOMAIN s /\ s[k].kept # <<>> THEN s[k].kept
                     ELSE IF k \in ks /\ (isFirst \/ single(k)) THEN pos(k)
                     ELSE <<>>]]

TooFewOffByOne(obs) == Len(obs) < 5

\* line 155
TooFew(obs) == Len(obs) < 6

\* lines 158-160
DropZeroX(obsx, obs) == BoolIndex(obs, NonZero(obsx))

\* np.std(a) < 1.; the std of an empty array is nan and compares False
StdBelow1(a) ==
    /\ Len(a) > 0
    /\ Len(a) * Sum([i \in 1..Len(a) |-> a[i] * a[i]]) - Sum(a) * Sum(a) < Len(a) * Len(a)

NonMovingAnyPinhole(pinhole, obsx) == StdBelow1(obsx)

\* line 161
NonMoving(pinhole, obsx) == pinhole = 0 /\ StdBelow1(obsx)

\* the k-th smallest value of a
KthSmallest(a, k) ==
    CHOOSE v \in Range(a) :
        /\ Cardinality({i \in 1..Len(a) : a[i] < v}) < k
        /\ Cardinality({i \in 1..Len(a) : a[i] <= v}) >= k

\* np.median(a), a not empty; the positions of the model have one parity per
\* coordinate, so the mean of the two middle values is an integer
Median(a) ==
    IF Len(a) % 2 = 1 THEN KthSmallest(a, (Len(a) + 1) \div 2)
    ELSE (KthSmallest(a, Len(a) \div 2) + KthSmallest(a, Len(a) \div 2 + 1)) \div 2

\* what xy2uv, fit_circle, uv2xy can do for a positioner: raise ValueError, or
\* return a centre and a radius (in 0.1 mm); they raise on an empty array
FitChoices(obsx) ==
    {[ok |-> FALSE, xc |-> 0, yc |-> 0, r |-> 0]}
    \cup (IF obsx = <<>> THEN {}
          ELSE {[ok |-> TRUE, xc |-> 3, yc |-> 4, r |-> 0],
                [ok |-> TRUE, xc |-> 1, yc |-> 4, r |-> 1],
                [ok |-> TRUE, xc |-> 6, yc |-> 4, r |-> 30]})

\* a device the loop skipped: its entries of the four arrays stay zero
Skipped == [xfp_metro |-> 0, yfp_metro |-> 0, xfp_meas |-> 0, yfp_meas |-> 0, nan |-> FALSE]

\* the device reaches line 171
ReachesFit(pinhole, obsx) ==
    /\ ~TooFew(obsx)
    /\ ~NonMoving(pinhole, DropZeroX(obsx, obsx))
    /\ pinhole = 0

\* lines 155-196 for one device: its entries of xfp_metro, yfp_metro,
\* xfp_meas, yfp_meas; nan: the measured position is nan (median of nothing)
Device(pinhole, obsx, obsy, xe, ye, fit) ==
    IF TooFew(obsx) THEN Skipped
    ELSE LET xs == DropZeroX(obsx, obsx)
             ys == DropZeroX(obsx, obsy)
         IN IF NonMoving(pinhole, xs) THEN Skipped
            ELSE IF pinhole = 0
                 THEN IF ~fit.ok THEN Skipped
                      ELSE IF fit.r < 1 THEN Skipped
                      ELSE [xfp_metro |-> xe, yfp_metro |-> ye,
                            xfp_meas |-> fit.xc, yfp_meas |-> fit.yc, nan |-> FALSE]
                 ELSE IF xs = <<>>
                      THEN [xfp_metro |-> xe, yfp_metro |-> ye,
                            xfp_meas |-> 0, yfp_meas |-> 0, nan |-> TRUE]
                      ELSE [xfp_metro |-> xe, yfp_metro |-> ye,
                            xfp_meas |-> Median(xs), yfp_meas |-> Median(ys), nan |-> FALSE]

NoFit == [ok |-> FALSE, xc |-> 0, yc |-> 0, r |-> 0]

FitOf(fits, loc) == IF loc \in DOMAIN fits THEN fits[loc] ELSE NoFit

DeviceAt(d, fits, i) ==
    LET loc == d.keys[i]
    IN Device(loc % 10, d.x[loc], d.y[loc], d.xexp[loc], d.yexp[loc], FitOf(fits, loc))

\* the loop ends at the first ValueError
DevicesUntilValueError(d, fits) ==
    [i \in 1..Len(d.keys) |->
        IF \E j \in 1..(i - 1) :
              /\ ReachesFit(d.keys[j] % 10, d.x[d.keys[j]])
              /\ ~FitOf(fits, d.keys[j]).ok
        THEN Skipped ELSE DeviceAt(d, fits, i)]

\* lines 154-196: the loop over the devices
Devices(d, fits) == [i \in 1..Len(d.keys) |-> DeviceAt(d, fits, i)]

\* line 201: (xfp_metro != 0) & (dr < 3.)
Reported(a) ==
    /\ a.xfp_metro # 0
    /\ ~a.nan
    /\ Dist2(a.xfp_meas, a.yfp_meas, a.xfp_metro, a.yfp_metro) < 3 * 3

\* line 200: dr != 0, the entries of dr the printed median is taken of; nan
\* differs from 0
MedianMask(d, fits) ==
    LET a == Devices(d, fits)
    IN [i \in 1..Len(d.keys) |->
          a[i].nan \/ Dist2(a[i].xfp_meas, a[i].yfp_meas, a[i].xfp_metro, a[i].yfp_metro) # 0]

\* lines 141-143 and 197-205
CirclesTable(d, fits) ==
    LET a == Devices(d, fits)
        ii == [i \in 1..Len(d.keys) |-> Reported(a[i])]
    IN [c \in {"LOCATION", "PINHOLE_ID", "X_FP_METRO", "Y_FP_METRO", "X_FP", "Y_FP"} |->
          BoolIndex([i \in 1..Len(d.keys) |->
                        CASE c = "LOCATION"   -> d.keys[i] \div 10
                          [] c = "PINHOLE_ID" -> d.keys[i] % 10
                          [] c = "X_FP_METRO" -> a[i].xfp_metro
                          [] c = "Y_FP_METRO" -> a[i].yfp_metro
                          [] c = "X_FP"       -> a[i].xfp_meas
                          [] c = "Y_FP"       -> a[i].yfp_meas], ii)]

\* the devices fit_circle is called for
FittedKeys(d) == {loc \in DOMAIN d.x : ReachesFit(loc % 10, d.x[loc])}

(***************************************************************************)
(* fiberassign_radec2xy, fiberassign.py lines 9-77.  Sky coordinates are   *)
(* in arcseconds, focal-plane coordinates in mm, angles in millidegrees,   *)
(* sines and cosines in thousandths.                                       *)
(***************************************************************************)
Sgn(n) == IF n > 0 THEN 1 ELSE IF n < 0 THEN -1 ELSE 0

\* the 2x2 matrix m = <<m11, m12, m21, m22>> times the vector v
MatVec(m, v) == <<m[1] * v[1] + m[2] * v[2], m[3] * v[1] + m[4] * v[2]>>

Det(m) == m[1] * m[4] - m[2] * m[3]

\* plate matrices of the projection: identity, mirror, quarter turn, shear,
\* and two degenerate ones
PlateMatrices ==
    {<<1, 0, 0, 1>>, <<-1, 0, 0, 1>>, <<0, -1, 1, 0>>, <<1, 1, 0, 1>>,
     <<1, 1, 1, 1>>, <<0, 0, 0, 0>>}

\* radec2tan then tan2fp for the sky position sky and the pointing t: the plate
\* matrix applied to (sky - pointing), plus the offset the ADC angles produce.
\* With w = 1 the projection is not linear in (sky - pointing): its
\* orientation depends on which side of z the pointing is, and it is
\* degenerate at z.
RaDec2Fp(proj, sky, t) ==
    LET scale == IF proj.w = 0 THEN 1 ELSE Sgn(t[1] - proj.z)
        u == MatVec(proj.m, <<sky[1] - t[1], sky[2] - t[2]>>)
    IN <<scale * u[1] + proj.adc[1], scale * u[2] + proj.adc[2]>>

\* line 34, in arcseconds
eps == 1

\* lines 35-43
Jacobian(proj, c, t, f0) ==
    LET dra == RaDec2Fp(proj, <<c[1] + eps, c[2]>>, t)
        ddec == RaDec2Fp(proj, <<c[1], c[2] + eps>>, t)
    IN <<(dra[1] - f0[1]) \div eps, (ddec[1] - f0[1]) \div eps,
         (dra[2] - f0[2]) \div eps, (ddec[2] - f0[2]) \div eps>>

\* np.linalg.inv raises LinAlgError for a singular matrix
Singular(m) == Det(m) = 0

\* a / d for d # 0
Div(a, d) == IF d > 0 THEN a \div d ELSE (-a) \div (-d)

\* np.linalg.inv(m) for a matrix that is not singular
Inv(m) == <<Div(m[4], Det(m)), Div(-m[2], Det(m)), Div(-m[3], Det(m)), Div(m[1], Det(m))>>

\* the correction is subtracted
SolveMinus(m, f0) == MatVec(Inv(m), <<-f0[1], -f0[2]>>)

\* lines 46-49: X = Jinv.dot([xfp_0[0], yfp_0[0]])
Solve(m, f0) == MatVec(Inv(m), f0)

\* floor of the square root
ISqrt(n) == CHOOSE r \in 0..(n + 1) : r * r <= n /\ (r + 1) * (r + 1) > n

\* hadec2xy relative to the tile centre, called with ha = -ra
HaDec2XY(ha, dec, tel_ha, tel_dec) == <<tel_ha - ha, dec - tel_dec>>

\* line 11: farther than 10 mm from the origin
Far(f) == f[1] * f[1] + f[2] * f[2] > 10 * 10

\* line 13, one target: (yfp*x2 - xfp*y2)/sqrt((xfp^2+yfp^2)*(x2^2+y2^2)), the
\* sine of the angle from the sky offset to the focal-plane position
SinOf(f, xy2) ==
    (1000 * (f[2] * xy2[1] - f[1] * xy2[2]))
        \div ISqrt((f[1] * f[1] + f[2] * f[2]) * (xy2[1] * xy2[1] + xy2[2] * xy2[2]))

NanAngle == [nan |-> TRUE, v |-> 0]

\* np.rad2deg of a value in thousandths, in millidegrees
Rad2Deg(v) == (v * 57296) \div 1000

\* lines 9-13: _measure_fieldrot_deg(-ra, dec, -tile_ra, tile_dec, xfp, yfp); the
\* mean of no target is nan, and so is the mean when a position is nan
MeasureFieldRotDeg(targets, c, fps) ==
    LET ok == {i \in 1..Len(targets) : ~fps[i].nan /\ Far(fps[i].xy)}
        xy2 == [i \in 1..Len(targets) |-> HaDec2XY(-targets[i][1], targets[i][2], -c[1], c[2])]
        sines == [i \in 1..Len(targets) |->
                    IF i \in ok /\ xy2[i] # <<0, 0>> THEN SinOf(fps[i].xy, xy2[i]) ELSE 0]
    IN IF \/ ok = {}
          \/ \E i \in 1..Len(targets) : fps[i].nan
          \/ \E i \in ok : xy2[i] = <<0, 0>>
       THEN NanAngle
       ELSE [nan |-> FALSE, v |-> Rad2Deg(Sum(sines) \div Cardinality(ok))]

\* sincosd(a): <<sin, cos>> of a millidegrees; exact at the multiples of 90
\* degrees, elsewhere by the Taylor polynomial about the nearest of them
SinCosD(a) ==
    LET q == (a + 45000) \div 90000
        r == ((a - q * 90000) * 17453) \div 1000000
        sr == r - (r * r * r) \div 6000000
        cr == 1000 - (r * r) \div 2000
    IN CASE q % 4 = 0 -> <<sr, cr>>
         [] q % 4 = 1 -> <<cr, -sr>>
         [] q % 4 = 2 -> <<-sr, -cr>>
         [] q % 4 = 3 -> <<-cr, sr>>

NanPos == [nan |-> TRUE, xy |-> <<0, 0>>]

\* the rotation is by the transposed matrix
RotateTransposed(f, sc) ==
    IF f.nan THEN NanPos
    ELSE [nan |-> FALSE,
          xy |-> <<(sc[2] * f.xy[1] + sc[1] * f.xy[2]) \div 1000,
                   (sc[2] * f.xy[2] - sc[1] * f.xy[1]) \div 1000>>]

\* lines 70-71 for one target
Rotate(f, sc) ==
    IF f.nan THEN NanPos
    ELSE [nan |-> FALSE,
          xy |-> <<(sc[2] * f.xy[1] - sc[1] * f.xy[2]) \div 1000,
                   (sc[1] * f.xy[1] + sc[2] * f.xy[2]) \div 1000>>]

\* lines 68-71
ApplyFieldRot(requested, measured, fps) ==
    IF measured.nan THEN [i \in 1..Len(fps) |-> NanPos]
    ELSE [i \in 1..Len(fps) |-> Rotate(fps[i], SinCosD(requested - measured.v))]

\* the tile centre <<tile_ra, tile_dec>>
TileCentre == <<5, -3>>

\* the targets <<ra, dec>>: three farther than 10 arcseconds from the tile
\* centre and one nearer
Targets == <<(<<17, -3>>), (<<5, 12>>), (<<8, 1>>), (<<-15, -3>>)>>

\* the requested field rotations
FieldRots == {0, 90000}

\* the arguments of a call: tile centre, tile_fieldrot, targets, and the
\* projection that tile_mjd, tile_ha, adc1, adc2 select
Tiles(matrices, nonlinear) ==
    [centre : {TileCentre}, fieldrot : FieldRots, targets : {Targets},
     proj : [m : matrices, adc : (-MaxAdc..MaxAdc) \X (-MaxAdc..MaxAdc),
             w : nonlinear, z : {TileCentre[1] - 1}]]

\* a tile for the specifications that do not call fiberassign_radec2xy
NoTile ==
    [centre |-> TileCentre, fieldrot |-> 0, targets |-> <<>>,
     proj |-> [m |-> <<1, 0, 0, 1>>, adc |-> <<0, 0>>, w |-> 0, z |-> 0]]

\* line 27: range(2)
NIterations == 2

\* the loop stops after a turn that found the tile centre at the origin
LoopUntilCentred(it, f0) == it < NIterations /\ f0 # <<0, 0>>

\* line 27: there is a turn of the loop after it turns; f0 is the offset of the
\* tile centre found in the last turn
LoopContinues(it, f0) == it < NIterations

(***************************************************************************)
(* State machine of fiberassign_radec2xy                                   *)
(***************************************************************************)
\* lines 16-23
InitPointing(S) ==
    /\ tile \in S
    /\ fpc = "centre"
    /\ tel = tile.centre
    /\ iteration = 0
    /\ fp_0 = <<>>
    /\ J = <<>>
    /\ X = <<>>
    /\ updates = 0
    /\ tmp_fp = <<>>
    /\ tmp_fieldrot = NanAngle
    /\ realised_fieldrot = NanAngle
    /\ fp = <<>>

\* lines 27-30
ProjectCentre ==
    /\ fpc = "centre"
    /\ fp_0' = RaDec2Fp(tile.proj, tile.centre, tel)
    /\ fpc' = "derive"
    /\ UNCHANGED <<tile, tel, iteration, J, X, updates, tmp_fp, tmp_fieldrot,
                   realised_fieldrot, fp, spotVars, circleVars, binVars>>

\* lines 34-43
Derive ==
    /\ fpc = "derive"
    /\ J' = Jacobian(tile.proj, tile.centre, tel, fp_0)
    /\ fpc' = "solve"
    /\ UNCHANGED <<tile, tel, iteration, fp_0, X, updates, tmp_fp, tmp_fieldrot,
                   realised_fieldrot, fp, spotVars, circleVars, binVars>>

\* a singular Jacobian is caught and the pointing left as it is
SolveJacobianCaught ==
    /\ fpc = "solve"
    /\ fpc' = "update"
    /\ X' = IF Singular(J) THEN <<0, 0>> ELSE Solve(J, fp_0)
    /\ UNCHANGED <<tile, tel, iteration, fp_0, J, updates, tmp_fp, tmp_fieldrot,
                   realised_fieldrot, fp, spotVars, circleVars, binVars>>

\* lines 46-49; a LinAlgError leaves the function
SolveJacobian ==
    /\ fpc = "solve"
    /\ IF Singular(J)
       THEN fpc' = "LinAlgError" /\ X' = X
       ELSE fpc' = "update" /\ X' = Solve(J, fp_0)
    /\ UNCHANGED <<tile, tel, iteration, fp_0, J, updates, tmp_fp, tmp_fieldrot,
                   realised_fieldrot, fp, spotVars, circleVars, binVars>>

\* lines 52-53 and the end of the loop body
UpdatePointing ==
    /\ fpc = "update"
    /\ tel' = <<tel[1] + X[1], tel[2] + X[2]>>
    /\ updates' = updates + 1
    /\ iteration' = iteration + 1
    /\ fpc' = IF LoopContinues(iteration + 1, fp_0) THEN "centre" ELSE "verify"
    /\ UNCHANGED <<tile, fp_0, J, X, tmp_fp, tmp_fieldrot,
                   realised_fieldrot, fp, spotVars, circleVars, binVars>>

\* lines 56-58
VerifyCentre ==
    /\ fpc = "verify"
    /\ fp_0' = RaDec2Fp(tile.proj, tile.centre, tel)
    /\ fpc' = "targets"
    /\ UNCHANGED <<tile, tel, iteration, J, X, updates, tmp_fp, tmp_fieldrot,
                   realised_fieldrot, fp, spotVars, circleVars, binVars>>

\* lines 61-62
ProjectTargets ==
    /\ fpc = "targets"
    /\ tmp_fp' = [i \in 1..Len(tile.targets) |->
                     [nan |-> FALSE, xy |-> RaDec2Fp(tile.proj, tile.targets[i], tel)]]
    /\ fpc' = "measure"
    /\ UNCHANGED <<tile, tel, iteration, fp_0, J, X, updates, tmp_fieldrot,
                   realised_fieldrot, fp, spotVars, circleVars, binVars>>

\* line 65
MeasureFieldRot ==
    /\ fpc = "measure"
    /\ tmp_fieldrot' = MeasureFieldRotDeg(tile.targets, tile.centre, tmp_fp)
    /\ fpc' = "rotate"
    /\ UNCHANGED <<tile, tel, iteration, fp_0, J, X, updates, tmp_fp,
                   realised_fieldrot, fp, spotVars, circleVars, binVars>>

\* lines 68-71
CorrectFieldRot ==
    /\ fpc = "rotate"
    /\ fp' = ApplyFieldRot(tile.fieldrot, tmp_fieldrot, tmp_fp)
    /\ fpc' = "remeasure"
    /\ UNCHANGED <<tile, tel, iteration, fp_0, J, X, updates, tmp_fp, tmp_fieldrot,
                   realised_fieldrot, spotVars, circleVars, binVars>>

\* lines 74-77
ReturnFp ==
    /\ fpc = "remeasure"
    /\ realised_fieldrot' = MeasureFieldRotDeg(tile.targets, tile.centre, fp)
    /\ fpc' = "done"
    /\ UNCHANGED <<tile, tel, iteration, fp_0, J, X, updates, tmp_fp, tmp_fieldrot,
                   fp, spotVars, circleVars, binVars>>

FiberassignRaDec2XY ==
    \/ ProjectCentre \/ Derive \/ SolveJacobian \/ UpdatePointing \/ VerifyCentre
    \/ ProjectTargets \/ MeasureFieldRot \/ CorrectFieldRot \/ ReturnFp

(***************************************************************************)
(* bin_errors, posparams/plotter.py lines 134-256                          *)
(***************************************************************************)
\* plotter.py line 16
day_in_sec == 24 * 60 * 60

PosIds == {"M01", "M02"}

\* values of FIT_ERROR_STATIC
FitErrors == {0, 4}

\* values of DATA_END_DATE_SEC: every half day
Dates == {k * (day_in_sec \div 2) : k \in 0..MaxDate}

TableRows == [pos : PosIds, date : Dates, err : FitErrors]

\* the subsets of S with at most k elements
RECURSIVE UpTo(_, _)
UpTo(S, k) ==
    IF k = 0 THEN {{}}
    ELSE LET P == UpTo(S, k - 1) IN P \cup {q \cup {e} : q \in P, e \in S}

\* the tables: at least one row, min() of no row raises
BinTables == UpTo(TableRows, BinRows) \ {{}}

\* the argument bins: an int (edges empty) or a sequence of edges
BinsArgs == {[n |-> 2, edges |-> <<>>], [n |-> 0, edges |-> <<-1, 0, 3>>]}

MinOf(S) == CHOOSE v \in S : \A w \in S : v <= w

MaxOf(S) == CHOOSE v \in S : \A w \in S : w <= v

\* lines 174-183: edges[1:]
BinCeilings(t, b) ==
    LET min_err == MinOf({r.err : r \in t})
        max_err == MaxOf({r.err : r \in t})
    IN IF b.edges = <<>>
       THEN [k \in 1..b.n |-> min_err + (k * (max_err - min_err)) \div b.n]
       ELSE Tail(b.edges)

\* sorted(S)
RECURSIVE Sorted(_)
Sorted(S) == IF S = {} THEN <<>> ELSE <<MinOf(S)>> \o Sorted(S \ {MinOf(S)})

\* line 185
Periods(t) == Sorted({r.date : r \in t})

\* lines 189-197 for period i
Subtable(t, ps, i) ==
    LET start == ps[i] - day_in_sec
        after(r) == IF i = 1 THEN start <= r.date ELSE start < r.date
        until(r) == ps[i] >= r.date
    IN {r \in t : until(r) /\ after(r)}

\* lines 207, 209
FailSet(sub, ceiling) == {r.pos : r \in {q \in sub : ~(q.err <= ceiling)}}

\* a POS_ID with conflicting rows is left in both sets
PassSetWithConflicts(sub, ceiling) == {r.pos : r \in {q \in sub : q.err <= ceiling}}

\* lines 206, 208, 210
PassSet(sub, ceiling) ==
    {r.pos : r \in {q \in sub : q.err <= ceiling}} \ FailSet(sub, ceiling)

\* nothing is kept of the previous period
KeepNothing(prev, posids, known) == {}

\* lines 213, 217-218: prev_set & unknown
KeepPrev(prev, posids, known) == prev \cap (posids \ known)

\* lines 224-241: the counts per ceiling, and total_known after the last one
Counts(sets, cs, ps) ==
    [c \in Range(cs) |-> [i \in 1..Len(ps) |-> Cardinality(sets[c][ps[i]])]]

(***************************************************************************)
(* State machine of bin_errors                                             *)
(***************************************************************************)
InitBins(T) ==
    /\ table \in T
    /\ bins \in BinsArgs
    /\ bpc = "edges"
    /\ bin_ceilings = <<>>
    /\ periods = <<>>
    /\ subtables = EmptyDict
    /\ passing = EmptyDict
    /\ failing = EmptyDict
    /\ ceiling_i = 1
    /\ period_i = 1
    /\ binned = <<>>

\* lines 174-197
Prepare ==
    /\ bpc = "edges"
    /\ bin_ceilings' = BinCeilings(table, bins)
    /\ periods' = Periods(table)
    /\ subtables' = [p \in Range(Periods(table)) |->
                        Subtable(table, Periods(table),
                                 CHOOSE i \in 1..Len(Periods(table)) : Periods(table)[i] = p)]
    /\ bpc' = "bin"
    /\ UNCHANGED <<table, bins, passing, failing, ceiling_i, period_i, binned,
                   spotVars, circleVars, pointVars>>

\* lines 200-222: one period of one ceiling
BinPeriod ==
    /\ bpc = "bin"
    /\ LET ceiling == bin_ceilings[ceiling_i]
           period == periods[period_i]
           posids == {r.pos : r \in table}
           pass0 == PassSet(subtables[period], ceiling)
           fail0 == FailSet(subtables[period], ceiling)
           known == pass0 \cup fail0
           prevp == IF period_i = 1 THEN {} ELSE passing[ceiling][periods[period_i - 1]]
           prevf == IF period_i = 1 THEN {} ELSE failing[ceiling][periods[period_i - 1]]
           pass_set == pass0 \cup KeepPrev(prevp, posids, known)
           fail_set == fail0 \cup KeepPrev(prevf, posids, known)
           pdict == IF period_i = 1 THEN EmptyDict ELSE passing[ceiling]
           fdict == IF period_i = 1 THEN EmptyDict ELSE failing[ceiling]
       IN /\ passing' = DictSet(passing, ceiling, DictSet(pdict, period, pass_set))
          /\ failing' = DictSet(failing, ceiling, DictSet(fdict, period, fail_set))
    /\ IF period_i < Len(periods)
       THEN period_i' = period_i + 1 /\ UNCHANGED <<ceiling_i, bpc>>
       ELSE /\ period_i' = 1
            /\ IF ceiling_i < Len(bin_ceilings)
               THEN ceiling_i' = ceiling_i + 1 /\ UNCHANGED bpc
               ELSE bpc' = "count" /\ UNCHANGED ceiling_i
    /\ UNCHANGED <<table, bins, bin_ceilings, periods, subtables, binned,
                   spotVars, circleVars, pointVars>>

\* lines 224-256
ReturnBinned ==
    /\ bpc = "count"
    /\ LET passing_counts == Counts(passing, bin_ceilings, periods)
           failing_counts == Counts(failing, bin_ceilings, periods)
           last == bin_ceilings[Len(bin_ceilings)]
       IN binned' = [bin_ceilings |-> bin_ceilings,
                     periods |-> periods,
                     total_known |-> [i \in 1..Len(periods) |->
                                         passing_counts[last][i] + failing_counts[last][i]],
                     passing |-> passing,
                     failing |-> failing,
                     passing_counts |-> passing_counts,
                     failing_counts |-> failing_counts]
    /\ bpc' = "done"
    /\ UNCHANGED <<table, bins, bin_ceilings, periods, subtables, passing, failing,
                   ceiling_i, period_i, spotVars, circleVars, pointVars>>

BinErrors == Prepare \/ BinPeriod \/ ReturnBinned

\* a table for the specifications that do not call bin_errors
NoBinTable == {{[pos |-> "M01", date |-> 0, err |-> 0]}}

(***************************************************************************)
(* State machine of measure_circles                                        *)
(***************************************************************************)
InitCircles ==
    /\ cpc = "accumulate"
    /\ first = TRUE
    /\ nexp = 0
    /\ xkeys = <<>>
    /\ x = EmptyDict
    /\ y = EmptyDict
    /\ xexp = EmptyDict
    /\ yexp = EmptyDict
    /\ fitres = EmptyDict
    /\ t2 = NoTable
    /\ sighted = EmptyDict
    /\ drsel = <<>>

\* lines 114-139: one exposure of allspots, a table of T
AddExposureOf(T) ==
    /\ cpc = "accumulate"
    /\ nexp < MaxExposures
    /\ \E t \in T :
          LET d == AfterExposure(Dicts(xkeys, x, y, xexp, yexp), first, t)
          IN /\ xkeys' = d.keys
             /\ x' = d.x
             /\ y' = d.y
             /\ xexp' = d.xexp
             /\ yexp' = d.yexp
             /\ sighted' = Sight(sighted, first, t)
    /\ first' = FALSE
    /\ nexp' = nexp + 1
    /\ UNCHANGED <<cpc, fitres, t2, drsel, spotVars, pointVars, binVars>>

AddExposure == AddExposureOf(ExposureTables)

AddKeyExposure == AddExposureOf(KeyTables)

AddDupExposure == AddExposureOf(DupTables)

\* lines 141-205: allspots is exhausted
Finish ==
    /\ cpc = "accumulate"
    /\ LET d == Dicts(xkeys, x, y, xexp, yexp)
       IN \E fits \in [FittedKeys(d) -> UNION {FitChoices(DropZeroX(x[loc], x[loc])) : loc \in FittedKeys(d)}] :
             /\ \A loc \in FittedKeys(d) : fits[loc] \in FitChoices(DropZeroX(x[loc], x[loc]))
             /\ fitres' = fits
             /\ drsel' = MedianMask(d, fits)
             /\ t2' = CirclesTable(d, fits)
    /\ cpc' = "done"
    /\ UNCHANGED <<first, nexp, xkeys, x, y, xexp, yexp, sighted, spotVars, pointVars, binVars>>

MeasureCircles == AddExposure \/ Finish

(***************************************************************************)
(* State machine of measure_spots                                          *)
(***************************************************************************)
InitSpots(n, ps) ==
    /\ metro \in {LoadMetro(f) : f \in MetroFiles}
    /\ fvc2fp = InitFvc2fp
    /\ passes = ps
    /\ nspots = n
    /\ pc = [p \in AllPasses |-> "start"]
    /\ spots = [p \in AllPasses |-> NoTable]
    /\ selection = [p \in AllPasses |-> <<>>]
    /\ indices_of_expected_pos = [p \in AllPasses |-> <<>>]
    /\ distances = [p \in AllPasses |-> <<>>]
    /\ matcher = [p \in AllPasses |-> [indices |-> <<>>, distances |-> <<>>]]
    /\ seen = [p \in AllPasses |-> InitFvc2fp]
    /\ spots0 = [p \in AllPasses |-> NoTable]
    /\ spots1 = [p \in AllPasses |-> NoTable]

\* lines 61-70: detectspots, then findfiducials with self.fvc2fp
FindFiducials(p) ==
    /\ p \in passes
    /\ pc[p] = "start"
    /\ \E withExp \in BOOLEAN : \E t \in FiducialTables(metro, nspots, withExp) :
          spots' = [spots EXCEPT ![p] = t]
    /\ seen' = [seen EXCEPT ![p] = fvc2fp]
    /\ pc' = [pc EXCEPT ![p] = "fit"]
    /\ UNCHANGED <<metro, fvc2fp, passes, nspots, selection, indices_of_expected_pos,
                   distances, matcher, spots0, spots1,
                   circleVars, pointVars, binVars>>

\* line 72: self.fvc2fp.fit(spots, update_spots=True, ...)
Fit(p) ==
    /\ pc[p] = "fit"
    /\ \E params \in TransformParams :
          /\ fvc2fp' = params
          /\ spots' = [spots EXCEPT ![p] = Project(spots[p], params)]
    /\ pc' = [pc EXCEPT ![p] = "match"]
    /\ UNCHANGED <<metro, passes, nspots, selection, indices_of_expected_pos,
                   distances, matcher, seen, spots0, spots1,
                   circleVars, pointVars, binVars>>

\* lines 76-86
Match(p) ==
    /\ pc[p] = "match"
    /\ LET sel == SelectUnmatched(spots[p])
       IN \E res \in MatchSameSystem(BoolIndex(spots[p]["X_FP"], sel),
                                     BoolIndex(spots[p]["Y_FP"], sel),
                                     metro["X_FP"], metro["Y_FP"]) :
            LET is_matched == IsMatched(res.distances, res.indices)
            IN /\ matcher' = [matcher EXCEPT ![p] = res]
               /\ selection' = [selection EXCEPT ![p] = GateSelection(sel, is_matched)]
               /\ indices_of_expected_pos' =
                     [indices_of_expected_pos EXCEPT ![p] = Gated(res.indices, is_matched)]
               /\ distances' = [distances EXCEPT ![p] = Gated(res.distances, is_matched)]
    /\ spots0' = [spots0 EXCEPT ![p] = spots[p]]
    /\ pc' = [pc EXCEPT ![p] = "copy"]
    /\ UNCHANGED <<metro, fvc2fp, passes, nspots, spots, seen, spots1,
                   circleVars, pointVars, binVars>>

\* lines 89-95
Copy(p) ==
    /\ pc[p] = "copy"
    /\ LET t == CopyFromMetro(spots[p], selection[p], indices_of_expected_pos[p], metro)
       IN /\ spots' = [spots EXCEPT ![p] = t]
          /\ spots1' = [spots1 EXCEPT ![p] = t]
    /\ pc' = [pc EXCEPT ![p] = "metro"]
    /\ UNCHANGED <<metro, fvc2fp, passes, nspots, selection, indices_of_expected_pos,
                   distances, matcher, seen, spots0,
                   circleVars, pointVars, binVars>>

\* lines 98-106
Return(p) ==
    /\ pc[p] = "metro"
    /\ spots' = [spots EXCEPT ![p] = PreferMetro(spots[p])]
    /\ pc' = [pc EXCEPT ![p] = "done"]
    /\ UNCHANGED <<metro, fvc2fp, passes, nspots, selection, indices_of_expected_pos,
                   distances, matcher, seen, spots0, spots1,
                   circleVars, pointVars, binVars>>

MeasureSpots(p) == FindFiducials(p) \/ Fit(p) \/ Match(p) \/ Copy(p) \/ Return(p)

IdleBins == InitBins(NoBinTable) /\ bins = [n |-> 2, edges |-> <<>>]

Init == InitSpots(NSpots, {1}) /\ InitCircles /\ InitPointing({NoTile}) /\ IdleBins

Next == \E p \in AllPasses : MeasureSpots(p)

Spec == Init /\ [][Next]_vars

InitC == InitSpots(NSpots, {}) /\ InitCircles /\ InitPointing({NoTile}) /\ IdleBins

NextCircles == MeasureCircles

SpecCircles == InitC /\ [][NextCircles]_vars

NextKeys == AddKeyExposure \/ Finish

SpecKeys == InitC /\ [][NextKeys]_vars

NextDup == AddDupExposure \/ Finish

SpecDup == InitC /\ [][NextDup]_vars

InitP ==
    InitSpots(NSpots, {}) /\ InitCircles /\ InitPointing(Tiles(PlateMatrices, {0, 1}))
    /\ IdleBins

NextPointing == FiberassignRaDec2XY

SpecPointing == InitP /\ [][NextPointing]_vars

\* the call runs to its end: nothing but the function's own steps is scheduled
SpecPointingFair == SpecPointing /\ WF_vars(NextPointing)

\* tiles whose projection is linear and shows the sky unrotated or half-turned
InitR ==
    InitSpots(NSpots, {}) /\ InitCircles
    /\ InitPointing(Tiles({<<1, 0, 0, 1>>, <<-1, 0, 0, -1>>}, {0}))
    /\ IdleBins

SpecRotation == InitR /\ [][NextPointing]_vars

InitB ==
    InitSpots(NSpots, {}) /\ InitCircles /\ InitPointing({NoTile}) /\ InitBins(BinTables)

NextBins == BinErrors

SpecBins == InitB /\ [][NextBins]_vars

InitConc == InitSpots(ConcSpots, AllPasses) /\ InitCircles /\ InitPointing({NoTile}) /\ IdleBins

SpecConc == InitConc /\ [][Next]_vars

(***************************************************************************)
(* Properties of measure_spots                                             *)
(***************************************************************************)
Rows(p) == 1..NRows(spots0[p])

AfterCopy(p) == p \in passes /\ pc[p] \in {"metro", "done"}

Returned(p) == p \in passes /\ pc[p] = "done"

\* position, in the arrays the matcher returned, of detection i
MatcherPos(p, i) == Cardinality({k \in 1..i : spots0[p]["LOCATION"][k] = -1})

UnmatchedAtStart(p, i) == spots0[p]["LOCATION"][i] = -1

ValidAndInGate(p, i) ==
    /\ matcher[p].indices[MatcherPos(p, i)] >= 0
    /\ matcher[p].distances[MatcherPos(p, i)] < 7 * 7

InCatalog(loc) ==
    \E j \in 1..Len(metro["LOCATION"]) :
        /\ loc = metro["LOCATION"][j]
        /\ loc = metro["PETAL_LOC"][j] * 1000 + metro["DEVICE_LOC"][j]

\* C1: a detection that is unmatched when nearest-neighbour matching starts has
\* a LOCATION other than -1 in the returned table only if the matcher returned
\* an index >= 0 for it and its distance is below 7 mm; every other such
\* detection still has LOCATION -1, and the call returns.
C1_MatchedOnlyIfValidAndInGate ==
    \A p \in AllPasses : Returned(p) =>
        \A i \in Rows(p) : (UnmatchedAtStart(p, i) /\ ~ValidAndInGate(p, i)) =>
            spots[p]["LOCATION"][i] = -1

C1_Witness ==
    \E p \in AllPasses : Returned(p) /\
        \E i, k, l \in Rows(p) :
            /\ UnmatchedAtStart(p, i) /\ ValidAndInGate(p, i) /\ spots[p]["LOCATION"][i] # -1
            /\ UnmatchedAtStart(p, k) /\ matcher[p].indices[MatcherPos(p, k)] >= 0
            /\ matcher[p].distances[MatcherPos(p, k)] = 7 * 7
            /\ spots[p]["LOCATION"][k] = -1
            /\ UnmatchedAtStart(p, l) /\ matcher[p].indices[MatcherPos(p, l)] < 0
            /\ matcher[p].distances[MatcherPos(p, l)] < 7 * 7
            /\ spots[p]["LOCATION"][l] = -1

\* C2: a detection whose LOCATION is not -1 before the nearest-neighbour step is
\* not selected, and the selection, gate and copy from metrology leave its
\* LOCATION, PETAL_LOC, DEVICE_LOC and expected position as they were.
C2_PreMatchedUntouched ==
    \A p \in AllPasses : AfterCopy(p) =>
        \A i \in Rows(p) : ~UnmatchedAtStart(p, i) =>
            /\ ~selection[p][i]
            /\ \A k \in {"LOCATION", "PETAL_LOC", "DEVICE_LOC"} :
                  spots1[p][k][i] = spots0[p][k][i]
            /\ \A k \in {"X_FP_EXP", "Y_FP_EXP"} \cap DOMAIN spots0[p] :
                  spots1[p][k][i] = spots0[p][k][i]

\* a pre-matched detection that lies within the gate of another catalog row
C2_Witness ==
    \E p \in AllPasses : AfterCopy(p) /\ "X_FP_EXP" \in DOMAIN spots0[p] /\
        \E i \in Rows(p) :
            /\ spots0[p]["LOCATION"][i] = metro["LOCATION"][1]
            /\ Dist2(spots0[p]["X_FP"][i], spots0[p]["Y_FP"][i],
                     metro["X_FP"][2], metro["Y_FP"][2]) < 7 * 7
            /\ \E k \in Rows(p) : UnmatchedAtStart(p, k) /\ spots1[p]["LOCATION"][k] # -1

\* C3: each newly matched detection carries the expected x/y, PETAL_LOC,
\* DEVICE_LOC and LOCATION of the metrology row whose index the matcher
\* returned for that detection.
C3_CopiedFromOwnMatch ==
    \A p \in AllPasses : AfterCopy(p) =>
        \A i \in Rows(p) : (UnmatchedAtStart(p, i) /\ ValidAndInGate(p, i)) =>
            LET j == matcher[p].indices[MatcherPos(p, i)] + 1
            IN /\ spots1[p]["X_FP_EXP"][i] = metro["X_FP"][j]
               /\ spots1[p]["Y_FP_EXP"][i] = metro["Y_FP"][j]
               /\ spots1[p]["PETAL_LOC"][i] = metro["PETAL_LOC"][j]
               /\ spots1[p]["DEVICE_LOC"][i] = metro["DEVICE_LOC"][j]
               /\ spots1[p]["LOCATION"][i] = metro["LOCATION"][j]

\* a gated-out detection precedes a gated-in one
C3_Witness ==
    \E p \in AllPasses : AfterCopy(p) /\
        \E i, k \in Rows(p) :
            /\ i < k
            /\ UnmatchedAtStart(p, i) /\ ~ValidAndInGate(p, i)
            /\ UnmatchedAtStart(p, k) /\ ValidAndInGate(p, k)
            /\ matcher[p].indices[MatcherPos(p, i)] # matcher[p].indices[MatcherPos(p, k)]
            /\ spots1[p]["LOCATION"][k] = metro["LOCATION"][2]

\* C4: in the returned table, per coordinate, a detection with a nonzero
\* metrology-derived position has it as its expected position, and a detection
\* with a zero one keeps the expected position it had after the copy.
C4_MetroPreferred ==
    \A p \in AllPasses : Returned(p) =>
        \A i \in Rows(p) :
            /\ spots[p]["X_FP_METRO"][i] # 0 => spots[p]["X_FP_EXP"][i] = spots[p]["X_FP_METRO"][i]
            /\ spots[p]["Y_FP_METRO"][i] # 0 => spots[p]["Y_FP_EXP"][i] = spots[p]["Y_FP_METRO"][i]
            /\ spots[p]["X_FP_METRO"][i] = 0 => spots[p]["X_FP_EXP"][i] = spots1[p]["X_FP_EXP"][i]
            /\ spots[p]["Y_FP_METRO"][i] = 0 => spots[p]["Y_FP_EXP"][i] = spots1[p]["Y_FP_EXP"][i]

\* a newly matched detection whose metrology x overrides what the match wrote
\* while its y is kept
C4_Witness ==
    \E p \in AllPasses : Returned(p) /\
        \E i \in Rows(p) :
            /\ UnmatchedAtStart(p, i) /\ ValidAndInGate(p, i)
            /\ spots[p]["X_FP_METRO"][i] # 0
            /\ spots1[p]["X_FP_EXP"][i] # spots[p]["X_FP_METRO"][i]
            /\ spots[p]["X_FP_EXP"][i] = spots[p]["X_FP_METRO"][i]
            /\ spots[p]["Y_FP_METRO"][i] = 0
            /\ spots[p]["Y_FP_EXP"][i] # 0

\* C5: when fiducial identification delivered only LOCATION values that are -1
\* or in the catalog, every LOCATION of the returned table is -1 or the
\* LOCATION (petal*1000+device) of a catalog row.
C5_LocationInCatalog ==
    \A p \in AllPasses : Returned(p) =>
        ((\A i \in Rows(p) : spots0[p]["LOCATION"][i] = -1 \/ InCatalog(spots0[p]["LOCATION"][i]))
         => \A i \in Rows(p) : spots[p]["LOCATION"][i] = -1 \/ InCatalog(spots[p]["LOCATION"][i]))

C5_Witness ==
    \E p \in AllPasses : Returned(p) /\
        \E i, k \in Rows(p) :
            /\ ~UnmatchedAtStart(p, i) /\ InCatalog(spots0[p]["LOCATION"][i])
            /\ UnmatchedAtStart(p, k) /\ spots[p]["LOCATION"][k] = metro["LOCATION"][2]
            /\ \A l \in Rows(p) : spots[p]["LOCATION"][l] = -1 \/ InCatalog(spots[p]["LOCATION"][l])

\* C6: while a registration pass is between fiducial identification and its
\* own fit, the transform still has the parameters that pass identified its
\* fiducials with: no other pass's fit has changed them.
C6_TransformNotMutatedByOtherPass ==
    \A p \in AllPasses : (p \in passes /\ pc[p] = "fit") => fvc2fp = seen[p]

(***************************************************************************)
(* Properties of measure_circles                                           *)
(***************************************************************************)
CirclesReturned == cpc = "done"

\* the device key is a row of the returned table
InOutput(k) ==
    \E i \in 1..NRows(t2) : t2["LOCATION"][i] = k \div 10 /\ t2["PINHOLE_ID"][i] = k % 10

\* the observations of a device that the spread, the median and the fit see
UsedX(k) == BoolIndex(x[k], [i \in 1..Len(x[k]) |-> x[k][i] # 0])

UsedY(k) == BoolIndex(y[k], [i \in 1..Len(x[k]) |-> x[k][i] # 0])

\* the standard deviation of the device's x is below 1 mm
XSpreadBelow1(k) ==
    LET a == UsedX(k)
    IN /\ a # <<>>
       /\ Len(a) * Sum([i \in 1..Len(a) |-> a[i] * a[i]]) - Sum(a) * Sum(a) < 1 * Len(a) * Len(a)

\* C7: a device key with fewer than 6 accumulated observations is no row of
\* the returned table.
C7_FewObservationsNeverReported ==
    CirclesReturned => \A k \in DOMAIN x : Len(x[k]) < 6 => ~InOutput(k)

\* one device with 5 observations is left out beside one with 6 that is reported
C7_Witness ==
    /\ CirclesReturned
    /\ \E k, l \in DOMAIN x :
          /\ Len(x[k]) = 5 /\ ~InOutput(k)
          /\ Len(x[l]) >= 6 /\ InOutput(l)

\* C8: a device with at least 6 observations whose x-spread is below 1 mm is
\* no row of the table when its pinhole id is 0; with a pinhole id >= 1 it is
\* a row whenever the report filter of line 201 (expected x nonzero, offset
\* below 3 mm) lets it through.
C8_NonMovingRuleOnlyForPositioners ==
    CirclesReturned =>
        \A k \in DOMAIN x : (Len(x[k]) >= 6 /\ XSpreadBelow1(k)) =>
            /\ k % 10 = 0 => ~InOutput(k)
            /\ k % 10 >= 1 =>
                  (InOutput(k) <=>
                      /\ xexp[k] # 0
                      /\ Dist2(Median(UsedX(k)), Median(UsedY(k)), xexp[k], yexp[k]) < 3 * 3)

\* a positioner and a fiducial pinhole with identical observations
C8_Witness ==
    /\ CirclesReturned
    /\ \E k, l \in DOMAIN x :
          /\ k % 10 = 0 /\ l % 10 = 1
          /\ x[k] = x[l] /\ y[k] = y[l]
          /\ Len(x[k]) >= 6 /\ XSpreadBelow1(k)
          /\ ~InOutput(k) /\ InOutput(l)

Restrict(f, S) == [j \in S |-> f[j]]

\* the accumulated state without device k
WithoutDevice(k) ==
    Dicts(SelectSeq(xkeys, LAMBDA j : j # k),
          Restrict(x, (DOMAIN x) \ {k}), Restrict(y, (DOMAIN y) \ {k}),
          Restrict(xexp, (DOMAIN xexp) \ {k}), Restrict(yexp, (DOMAIN yexp) \ {k}))

\* C9: a positioner whose circle fit raised ValueError is no row of the
\* returned table, the call still returns, and the table is the one the call
\* returns when that device is absent from the accumulated observations.
C9_ValueErrorSkipsOnlyThatDevice ==
    CirclesReturned =>
        \A k \in DOMAIN fitres : ~fitres[k].ok =>
            /\ ~InOutput(k)
            /\ t2 = CirclesTable(WithoutDevice(k), Restrict(fitres, (DOMAIN fitres) \ {k}))

\* the fit of a moving positioner failed and a device after it is reported
C9_Witness ==
    /\ CirclesReturned
    /\ \E k \in DOMAIN fitres :
          /\ ~fitres[k].ok
          /\ UsedX(k) # <<>>
          /\ \E i, j \in 1..Len(xkeys) : i < j /\ xkeys[i] = k /\ InOutput(xkeys[j])

\* the fitted position of a device: the circle centre for a positioner, the
\* median of its observations for a pinhole
FittedX(k) == IF k % 10 = 0 THEN fitres[k].xc ELSE Median(UsedX(k))

FittedY(k) == IF k % 10 = 0 THEN fitres[k].yc ELSE Median(UsedY(k))

\* the device passed every skip policy and its offset does not exceed 3 mm
Accepted(k) ==
    /\ Len(x[k]) >= 6
    /\ k % 10 = 0 => (~XSpreadBelow1(k) /\ k \in DOMAIN fitres /\ fitres[k].ok /\ fitres[k].r >= 1)
    /\ k % 10 # 0 => UsedX(k) # <<>>
    /\ Dist2(FittedX(k), FittedY(k), xexp[k], yexp[k]) <= 3 * 3

\* C10: a device key is a row of the returned table if and only if it passed
\* every skip policy (at least 6 observations, moving if a positioner, circle
\* fit succeeded, radius not below 0.1 mm) and its fitted-vs-expected offset
\* does not exceed 3 mm; the row carries the device's location, pinhole id,
\* expected position and fitted position.
C10_ExactlyAcceptedDevices ==
    CirclesReturned =>
        /\ \A k \in DOMAIN x : InOutput(k) <=> Accepted(k)
        /\ \A i \in 1..NRows(t2) :
              LET k == t2["LOCATION"][i] * 10 + t2["PINHOLE_ID"][i]
              IN /\ k \in DOMAIN x
                 /\ t2["X_FP_METRO"][i] = xexp[k] /\ t2["Y_FP_METRO"][i] = yexp[k]
                 /\ t2["X_FP"][i] = FittedX(k) /\ t2["Y_FP"][i] = FittedY(k)

C17_MedianOverTableRows ==
    CirclesReturned =>
        /\ \A i \in 1..Len(xkeys) : drsel[i] <=> InOutput(xkeys[i])
        /\ t2 = CirclesTable(Dicts(xkeys, x, y, xexp, yexp), fitres)

\* the observations of a device without those that have a zero coordinate
NoZeroCoordinate(k) == [i \in 1..Len(x[k]) |-> x[k][i] # 0 /\ y[k][i] # 0]

CleanX(k) == BoolIndex(x[k], NoZeroCoordinate(k))

CleanY(k) == BoolIndex(y[k], NoZeroCoordinate(k))

\* C18: for a device that reaches the spread test, the observations the
\* spread, the median and the fit are computed from hold no zero coordinate,
\* and a device with fewer than 6 observations left once those with a zero
\* coordinate are dropped is no row of the returned table.
C18_ZeroDroppedThenCounted ==
    CirclesReturned =>
        \A k \in DOMAIN x :
            /\ Len(x[k]) >= 6 =>
                  (DropZeroX(x[k], x[k]) = CleanX(k) /\ DropZeroX(x[k], y[k]) = CleanY(k))
            /\ Len(CleanX(k)) < 6 => ~InOutput(k)

\* positions only duplicate detections or detections without a device have
DupOrUnlocatedX == {5, 7, 9, 11}

\* no observation of a duplicate detection or of a detection with
\* LOCATION <= 0 is accumulated, and such a detection makes no key
NoDupNoUnlocated ==
    /\ \A k \in DOMAIN x : \A i \in 1..Len(x[k]) : x[k][i] \notin DupOrUnlocatedX
    /\ \A k \in (DOMAIN x) \cup (DOMAIN xexp) : k \div 10 > 0

\* C20 as stated: duplicates of one exposure and detections with LOCATION <= 0
\* are never accumulated, and a device's expected position is that of the
\* first detection that ever carried its key.
C20_ExpectedOfFirstSighting ==
    /\ NoDupNoUnlocated
    /\ \A k \in DOMAIN xexp : <<xexp[k], yexp[k]>> = sighted[k].first

\* C20, amended: duplicates of one exposure and detections with LOCATION <= 0
\* are never accumulated; a device's expected position is that of the first
\* detection carrying its key in the first exposure of allspots (duplicated or
\* not) or, for a key the first exposure lacks, in the first exposure where
\* exactly one detection carries the key; once recorded it never changes.
C20_ExpectedOfFirstRegistration ==
    /\ NoDupNoUnlocated
    /\ \A k \in DOMAIN sighted : sighted[k].kept # <<>> <=> k \in DOMAIN xexp
    /\ \A k \in DOMAIN xexp : <<xexp[k], yexp[k]>> = sighted[k].kept

\* the positioner was first seen duplicated in a later exposure, then alone
\* with another expected position; duplicates and detections without a device
\* were processed
C20_Witness ==
    /\ 10 \in DOMAIN xexp /\ 21 \in DOMAIN xexp
    /\ sighted[10].first # sighted[10].kept
    /\ Len(x[10]) + 2 <= Len(x[21])
    /\ Len(x[10]) >= 1

(***************************************************************************)
(* Properties of fiberassign_radec2xy                                      *)
(***************************************************************************)
PastLoop == fpc \in {"verify", "targets", "measure", "rotate", "remeasure", "done"}

Ended == fpc \in {"done", "LinAlgError"}

\* C12: the pointing is updated NIterations = 2 times, never more; a call that
\* leaves the loop has updated it exactly twice, whatever the offset of the
\* tile centre was after the first and is after the second update; and every
\* call ends, by returning or by raising.
C12_ExactlyTwoUpdates ==
    /\ [](updates <= NIterations /\ iteration = updates)
    /\ [](PastLoop => updates = NIterations)
    /\ <>Ended

\* after two updates the tile centre is still off the origin and the call
\* has returned
C12_Witness == fpc = "done" /\ updates = NIterations /\ fp_0 # <<0, 0>>

\* C13: once a singular Jacobian has reached the linear solve the call is in
\* LinAlgError; there it stays, with the pointing not updated in that
\* iteration and no focal-plane coordinates computed or returned.
C13_SingularJacobianPropagates ==
    /\ []((J # <<>> /\ Singular(J)) => fpc \in {"solve", "LinAlgError"})
    /\ [](fpc = "LinAlgError" =>
             [](fpc = "LinAlgError" /\ tmp_fp = <<>> /\ fp = <<>> /\ updates = iteration))

\* the Jacobian of the second iteration is singular
C13_Witness ==
    fpc = "LinAlgError" /\ iteration = 1 /\ updates = 1 /\ tel # tile.centre

\* the finite-difference Jacobian of the tile centre's position with respect
\* to the pointing
PointingJacobian(proj, c, t, f0) ==
    LET dra == RaDec2Fp(proj, c, <<t[1] + eps, t[2]>>)
        ddec == RaDec2Fp(proj, c, <<t[1], t[2] + eps>>)
    IN <<(dra[1] - f0[1]) \div eps, (ddec[1] - f0[1]) \div eps,
         (dra[2] - f0[2]) \div eps, (ddec[2] - f0[2]) \div eps>>

Linear == tile.proj.w = 0

\* the tile centre has been projected again after the first update
AfterFirstUpdate == iteration = 1 /\ fpc \in {"derive", "solve", "update"}

\* C16 as stated: J is the finite-difference Jacobian for a step of eps in RA
\* and in Dec, the correction X added to the pointing solves J.X = -offset,
\* and for a linear projection the tile centre is at the origin after the
\* first update.
C16_SolvesJDeltaMinusOffset ==
    /\ fpc = "update" =>
          /\ J = Jacobian(tile.proj, tile.centre, tel, fp_0)
          /\ MatVec(J, X) = <<-fp_0[1], -fp_0[2]>>
    /\ (Linear /\ AfterFirstUpdate) => fp_0 = <<0, 0>>

\* C16, amended: J is the finite-difference Jacobian of the tile centre's
\* focal-plane position for a step of eps in the tile centre's RA and Dec; the
\* correction X added to the pointing solves J.X = +offset; for a projection
\* linear in (sky - pointing) the Jacobian with respect to the pointing is -J,
\* so X solves (that Jacobian).X = -offset, and the tile centre is at the
\* origin after the first update.
C16_SolvesJDeltaOffset ==
    /\ fpc = "update" =>
          /\ J = Jacobian(tile.proj, tile.centre, tel, fp_0)
          /\ MatVec(J, X) = fp_0
          /\ Linear =>
                MatVec(PointingJacobian(tile.proj, tile.centre, tel, fp_0), X)
                    = <<-fp_0[1], -fp_0[2]>>
    /\ (Linear /\ AfterFirstUpdate) => fp_0 = <<0, 0>>

\* a linear projection with a sheared plate and an ADC offset: the first
\* update moved the pointing and the tile centre is at the origin
C16_Witness ==
    /\ Linear /\ AfterFirstUpdate
    /\ tile.proj.m = <<1, 1, 0, 1>>
    /\ X # <<0, 0>> /\ tel = <<tile.centre[1] + X[1], tile.centre[2] + X[2]>>
    /\ fp_0 = <<0, 0>>

RadiusSq(f) == f.xy[1] * f.xy[1] + f.xy[2] * f.xy[2]

\* the rotation leaves the distances to the origin and the set of targets
\* farther than 10 mm as they were
DistancesKept ==
    \A i \in 1..Len(fp) :
        /\ ~fp[i].nan
        /\ RadiusSq(fp[i]) = RadiusSq(tmp_fp[i])
        /\ Far(fp[i].xy) <=> Far(tmp_fp[i].xy)

\* v turned by n quarter turns, counterclockwise
RECURSIVE QuarterTurns(_, _)
QuarterTurns(v, n) == IF n = 0 THEN v ELSE QuarterTurns(<<-v[2], v[1]>>, n - 1)

Window(period) == {r \in table : period - day_in_sec < r.date /\ r.date <= period}

RowsOf(pos, rows) == {r \in rows : r.pos = pos}

\* C15: in the returned structure, for every ceiling and every period, no
\* POS_ID is both passing and failing; a POS_ID with rows in the window
\* (period - 1 day, period] is passing and not failing when all of its rows in
\* the window have fit error <= ceiling, and failing and not passing when one
\* of them has fit error > ceiling
C15_PassingXorFailing ==
    bpc = "done" =>
        \A c \in Range(binned.bin_ceilings) : \A i \in 1..Len(binned.periods) :
            LET period == binned.periods[i]
                pass == binned.passing[c][period]
                fail == binned.failing[c][period]
            IN /\ pass \cap fail = {}
               /\ \A pos \in {r.pos : r \in Window(period)} :
                    LET rows == RowsOf(pos, Window(period))
                    IN /\ (\A r \in rows : r.err <= c) => (pos \in pass /\ pos \notin fail)
                       /\ (\E r \in rows : r.err > c) => (pos \in fail /\ pos \notin pass)

\* a POS_ID with conflicting rows in the window of a period that is not the
\* first, next to a POS_ID whose status is carried forward
C15_Witness ==
    /\ bpc = "done"
    /\ \E c \in Range(binned.bin_ceilings) : \E i \in 2..Len(binned.periods) :
        LET period == binned.periods[i]
        IN /\ \E pos \in PosIds :
                /\ \E r \in RowsOf(pos, Window(period)) : r.err <= c
                /\ \E r \in RowsOf(pos, Window(period)) : r.err > c
                /\ pos \in binned.failing[c][period]
           /\ \E pos \in PosIds :
                /\ RowsOf(pos, Window(period)) = {}
                /\ pos \in binned.passing[c][period]

\* C19: in the returned structure, a POS_ID with no row in the window of a
\* period has the status it had in the previous period; for every period
\* passing_counts + failing_counts is, for every ceiling, the number of
\* POS_IDs with a row dated at or before the period, and is total_known
C19_StatusCarriedForward ==
    bpc = "done" =>
        \A c \in Range(binned.bin_ceilings) : \A i \in 1..Len(binned.periods) :
            LET period == binned.periods[i]
                dated == {r.pos : r \in {q \in table : q.date <= period}}
            IN /\ i > 1 =>
                    \A pos \in {r.pos : r \in table} \ {r.pos : r \in Window(period)} :
                        /\ pos \in binned.passing[c][period]
                             <=> pos \in binned.passing[c][binned.periods[i - 1]]
                        /\ pos \in binned.failing[c][period]
                             <=> pos \in binned.failing[c][binned.periods[i - 1]]
               /\ binned.passing_counts[c][i] + binned.failing_counts[c][i]
                    = Cardinality(dated)
               /\ binned.total_known[i] = Cardinality(dated)

\* a POS_ID known in the first period and without a row in the window of the
\* last one, which another POS_ID joins later; the ceilings disagree on it
C19_Witness ==
    /\ bpc = "done"
    /\ Len(binned.periods) >= 2
    /\ binned.total_known[1] = 1
    /\ binned.total_known[Len(binned.periods)] = 2
    /\ \E pos \in PosIds :
        /\ RowsOf(pos, Window(binned.periods[Len(binned.periods)])) = {}
        /\ \E c \in Range(binned.bin_ceilings) :
             pos \in binned.failing[c][binned.periods[Len(binned.periods)]]
        /\ \E c \in Range(binned.bin_ceilings) :
             pos \in binned.passing[c][binned.periods[Len(binned.periods)]]

====
